---- MODULE Spec2Model ----
(***************************************************************************)
(* Model of beams/slices.py (class Slices): construction, the window       *)
(* resolver _set_longitudinal_cuts, the two partitioners                   *)
(* slice_constant_space / slice_constant_charge, update_slices and         *)
(* compute_statistics.                                                     *)
(*                                                                         *)
(* Python statements are executed in order; a statement that raises ends   *)
(* the call and leaves every assignment made before it in place.           *)
(***************************************************************************)
EXTENDS Integers, Sequences, FiniteSets, TLC

\* ---------------------------------------------------------------- bounds
MaxParticles == 2   \* macro-particles in the ledger (alive + lost)
MaxLost == 1        \* lost macro-particles
MaxZ == 1           \* longitudinal coordinates are 0..MaxZ
MaxSlices == 2      \* largest n_slices passed to the constructor
MaxSigma == 1       \* largest nsigmaz passed to the constructor

VARIABLES
    bunch,   \* the particle ledger as the last call left it
    slices,  \* <<>> (no Slices object) or <<object>>
    ctor,    \* <<>> or <<arguments of the last Slices(...) call>>
    call,    \* the last call on the class and how it ended
    index,   \* the local index of the last compute_statistics call, <<>>
             \* when the last call was another one or raised before line 129
             \* had built it
    turn     \* <<>>, or, when two objects are updated in one turn, how far
             \* each update is and the state of the shared generator (or
             \* the second ledger, when each object has its own)

vars == <<bunch, slices, ctor, call, index, turn>>

\* ------------------------------------------------------------ arithmetic
\* Coordinates are real numbers of the form (s + k*sqrt(d)) / n, n > 0:
\* integers, their midpoints and linspace fractions, and mean +- nsigmaz*std.
RECURSIVE Gcd(_, _)
Gcd(a, b) == IF b = 0 THEN a ELSE Gcd(b, a % b)

Abs(x) == IF x < 0 THEN -x ELSE x

Sign(x) == IF x > 0 THEN 1 ELSE IF x < 0 THEN -1 ELSE 0

Norm(s, n, k, d) ==
    LET kk == IF d = 0 THEN 0 ELSE k
        dd == IF kk = 0 THEN 0 ELSE d
        g  == Gcd(Gcd(Abs(s), Abs(kk)), n)
    IN  [s |-> s \div g, n |-> n \div g, k |-> kk \div g, d |-> dd]

Num(x) == [s |-> x, n |-> 1, k |-> 0, d |-> 0]

NAdd(a, b) ==
    Norm(a.s * b.n + b.s * a.n, a.n * b.n, a.k * b.n + b.k * a.n,
         IF a.k # 0 THEN a.d ELSE b.d)

\* a * p / q, q > 0
NScale(a, p, q) == Norm(p * a.s, q * a.n, p * a.k, a.d)

NSub(a, b) == NAdd(a, NScale(b, -1, 1))

\* sign of (s + k*sqrt(d)) / n
NSign(a) ==
    IF a.k = 0 \/ a.d = 0 THEN Sign(a.s)
    ELSE IF a.s = 0 THEN Sign(a.k)
    ELSE IF Sign(a.s) = Sign(a.k) THEN Sign(a.s)
    ELSE IF a.s * a.s > a.k * a.k * a.d THEN Sign(a.s)
    ELSE IF a.s * a.s < a.k * a.k * a.d THEN Sign(a.k)
    ELSE 0

NLt(a, b) == NSign(NSub(a, b)) < 0
NEq(a, b) == NSign(NSub(a, b)) = 0
NLe(a, b) == NSign(NSub(a, b)) <= 0

\* ------------------------------------------------------------- sequences
RECURSIVE SumSeq(_)
SumSeq(q) == IF q = <<>> THEN 0 ELSE Head(q) + SumSeq(Tail(q))

RECURSIVE Insert(_, _)
Insert(x, q) ==
    IF q = <<>> THEN <<x>>
    ELSE IF x <= Head(q) THEN <<x>> \o q
    ELSE <<Head(q)>> \o Insert(x, Tail(q))

RECURSIVE SortAsc(_)
SortAsc(q) == IF q = <<>> THEN <<>> ELSE Insert(Head(q), SortAsc(Tail(q)))

Zeros(n) == [i \in 1..n |-> 0]

\* ------------------------------------------------------- particle ledger
\* bunch.dz holds the alive particles first and the lost ones after them;
\* bunch.n_macroparticles is its length.
n_alive(b) == b.n_macroparticles - b.n_macroparticles_lost

dz_alive(b) == SubSeq(b.dz, 1, n_alive(b))

\* bunch.sort_particles(): in-place ascending sort by longitudinal coordinate of
\* the alive particles; the lost ones stay behind them.
sort_particles(b) ==
    [b EXCEPT !.dz = SortAsc(dz_alive(b))
                     \o SubSeq(b.dz, n_alive(b) + 1, Len(b.dz))]

\* cobra_functions.stats.mean / std over a coordinate array, as the value
\* (sum / N) and sqrt(N * sum(x^2) - sum^2) / N; both are 0 on an empty array.
SumSq(q) == SumSeq([i \in 1..Len(q) |-> q[i] * q[i]])

cp_mean(q) == IF Len(q) = 0 THEN Num(0) ELSE Norm(SumSeq(q), Len(q), 0, 0)

\* nsig * std(q)
cp_std_times(q, nsig) ==
    IF Len(q) = 0 THEN Num(0)
    ELSE Norm(0, Len(q), nsig, Len(q) * SumSq(q) - SumSeq(q) * SumSeq(q))

\* --------------------------------------------------------- Python values
Null == <<>>          \* the "null" default of z_cut_tail / z_cut_head, and None

NoExc == [exc |-> "none", line |-> 0]
Raise(e, l) == [exc |-> e, line |-> l]

\* seq[j] with a Python index j (0-based, negative counts from the end)
PyIndexOk(q, j) == -Len(q) <= j /\ j < Len(q)
PyIndex(q, j) == IF j >= 0 THEN q[j + 1] ELSE q[Len(q) + j + 1]

\* numpy.searchsorted(a, v) (side = 'left') on an ascending array: the number
\* of elements below v.
searchsorted(a, v) == Cardinality({i \in 1..Len(a) : NLt(Num(a[i]), v)})

\* numpy.linspace(start, stop, num)
linspace(start, stop, num) ==
    IF num = 1 THEN <<start>>
    ELSE [i \in 1..num |->
            NAdd(NScale(start, num - i, num - 1), NScale(stop, i - 1, num - 1))]

\* z_bins[:-1] + (z_bins[1:] - z_bins[:-1]) / 2.
centers(zb) ==
    [i \in 1..(Len(zb) - 1) |-> NAdd(zb[i], NScale(NSub(zb[i + 1], zb[i]), 1, 2))]

\* ----------------------------------------------------------------- Slices
\* What the name self.n_slices would be, were it an integer attribute holding
\* the slice count.
self_n_slices_int(self) == [kind |-> "int", val |-> Len(self.mean_x)]

\* The name self.n_slices: the class defines n_slices as a function
\* (def n_slices(self): return len(self.mean_x)) and no statement assigns an
\* instance attribute of that name, so the name evaluates to the bound
\* method, not to a number; val is what calling it returns.
self_n_slices(self) == [kind |-> "method", val |-> Len(self.mean_x)]

\* n_slices(): the call
n_slices(self) == Len(self.mean_x)

\* Arithmetic, range() and friends accept a number only.
IsNumber(v) == v.kind = "int"

\* Lines 23-42 of __init__: the object before the fixed-cut branch.
NewSlices(n, nsigmaz, mode) ==
    [nsigmaz |-> nsigmaz, mode |-> mode,
     mean_x |-> Zeros(n),
     n_macroparticles |-> Zeros(n),
     z_bins |-> [i \in 1..(n + 1) |-> Num(0)],
     dynamic_frame |-> "on",
     attrs |-> {},
     z_cut_tail |-> Num(0), z_cut_head |-> Num(0),
     z_centers |-> <<>>,
     n_cut_tail |-> 0, n_cut_head |-> 0,
     z_index |-> <<>>]

\* __init__: the result is [obj, exc, line]; obj is <<>> when the constructor
\* raised (the caller gets no object).
init(n, nsigmaz, mode, z_cut_tail, z_cut_head) ==
    IF n < 0 THEN
        \* np.zeros(n_slices) with a negative dimension
        [obj |-> <<>>] @@ Raise("ValueError", 26)
    ELSE
        LET s0 == NewSlices(n, nsigmaz, mode) IN
        IF z_cut_tail # Null /\ z_cut_head # Null THEN
            LET s1 == [s0 EXCEPT !.z_cut_tail = Num(z_cut_tail[1]),
                                 !.z_cut_head = Num(z_cut_head[1]),
                                 !.attrs = @ \cup {"z_cut_tail", "z_cut_head"}]
            IN  IF ~IsNumber(self_n_slices(s1)) THEN
                    \* self.n_slices + 1
                    [obj |-> <<>>] @@ Raise("TypeError", 47)
                ELSE
                    LET zb == linspace(s1.z_cut_tail, s1.z_cut_head,
                                       self_n_slices(s1).val + 1)
                    IN  [obj |-> <<[s1 EXCEPT !.z_bins = zb,
                                             !.z_centers = centers(zb),
                                             !.attrs = @ \cup {"z_centers"},
                                             !.dynamic_frame = "off"]>>] @@ NoExc
        ELSE [obj |-> <<s0>>] @@ NoExc

\* _set_longitudinal_cuts: [tail, head, exc, line]
set_longitudinal_cuts(self, b) ==
    IF self.nsigmaz = Null THEN
        IF ~PyIndexOk(b.dz, 0) THEN
            [tail |-> Num(0), head |-> Num(0)] @@ Raise("IndexError", 59)
        ELSE IF ~PyIndexOk(b.dz, -1 - b.n_macroparticles_lost) THEN
            [tail |-> Num(0), head |-> Num(0)] @@ Raise("IndexError", 60)
        ELSE
            [tail |-> Num(PyIndex(b.dz, 0)),
             head |-> Num(PyIndex(b.dz, -1 - b.n_macroparticles_lost))] @@ NoExc
    ELSE
        LET mean_z  == cp_mean(dz_alive(b))
            nsigma_z == cp_std_times(dz_alive(b), self.nsigmaz[1])
        IN  [tail |-> NSub(mean_z, nsigma_z),
             head |-> NAdd(mean_z, nsigma_z)] @@ NoExc

\* self.z_cut_tail, self.z_cut_head = ...
WithCuts(self, c) ==
    [self EXCEPT !.z_cut_tail = c.tail, !.z_cut_head = c.head,
                 !.attrs = @ \cup {"z_cut_tail", "z_cut_head"}]

\* How a call ended: the object and the ledger as it left them, the exception
\* it raised, and <<x>> when random.sample was called and returned x.
Outcome(self, b, e) ==
    [self |-> self, bunch |-> b, exc |-> e.exc, line |-> e.line, drawn |-> <<>>]

\* Lines 80-87 of slice_constant_space: the counts from the boundary search.
count_constant_space(self, b) ==
    LET a    == dz_alive(b)
        last == Len(self.z_bins)
        fi   == [i \in 1..last |-> searchsorted(a, self.z_bins[i])]
        first_index_in_bin ==
            IF \E j \in 1..Len(a) : NEq(Num(a[j]), self.z_bins[last])
            THEN [fi EXCEPT ![last] = @ + 1]
            ELSE fi
    IN  [self EXCEPT
            !.n_macroparticles =
                [i \in 1..(last - 1) |->
                    first_index_in_bin[i + 1] - first_index_in_bin[i]],
            !.n_cut_tail = first_index_in_bin[1],
            !.n_cut_head = Len(a) - first_index_in_bin[last],
            !.attrs = @ \cup {"n_cut_tail", "n_cut_head"}]

\* Lines 74-87 of slice_constant_space, on the ledger as line 72 left it:
\* the set of outcomes (one)
slice_constant_space_body(self, b) ==
    IF self.dynamic_frame = "on" THEN
        LET c == set_longitudinal_cuts(self, b) IN
        IF c.exc # "none" THEN {Outcome(self, b, c)}
        ELSE
            LET s1 == WithCuts(self, c) IN
            IF ~IsNumber(self_n_slices(s1)) THEN
                \* self.n_slices + 1
                {Outcome(s1, b, Raise("TypeError", 77))}
            ELSE
                LET zb == linspace(s1.z_cut_tail, s1.z_cut_head,
                                   self_n_slices(s1).val + 1)
                    s2 == [s1 EXCEPT !.z_bins = zb,
                                     !.z_centers = centers(zb),
                                     !.attrs = @ \cup {"z_centers"}]
                IN  {Outcome(count_constant_space(s2, b), b, NoExc)}
    ELSE {Outcome(count_constant_space(self, b), b, NoExc)}

\* slice_constant_space(bunch): bunch.sort_particles(), then lines 74-87
slice_constant_space(self, b0) ==
    slice_constant_space_body(self, sort_particles(b0))

\* Lines 109-116 of slice_constant_charge, after the counts are set: the
\* boundaries from the particle partition.
bins_constant_charge(self, b) ==
    LET n  == Len(self.n_macroparticles)
        z_index == [i \in 1..n |->
                      self.n_cut_tail
                      + SumSeq(SubSeq(self.n_macroparticles, 1, i - 1))]
        s1 == [self EXCEPT !.z_index = z_index, !.attrs = @ \cup {"z_index"}]
        \* the lambda of line 113 for i = 1 .. n_slices - 1 (z_index[i] is
        \* z_index[i + 1] here)
        Bad(i) == ~PyIndexOk(b.dz, z_index[i + 1] - 1)
                  \/ ~PyIndexOk(b.dz, z_index[i + 1])
        Mid(i) == LET lo == Num(PyIndex(b.dz, z_index[i + 1] - 1))
                      hi == Num(PyIndex(b.dz, z_index[i + 1]))
                  IN  NAdd(lo, NScale(NSub(hi, lo), 1, 2))
    IN  IF \E i \in 1..(n - 1) : Bad(i) THEN
            Outcome(s1, b, Raise("IndexError", 113))
        ELSE
            LET zb == <<s1.z_cut_tail>> \o [i \in 1..(n - 1) |-> Mid(i)]
                      \o <<s1.z_cut_head>>
            IN  Outcome([s1 EXCEPT !.z_bins = zb,
                                   !.z_centers = centers(zb),
                                   !.attrs = @ \cup {"z_centers"}],
                        b, NoExc)

\* random.sample(range(n), r): every r-element subset of 0..n-1
sample(n, r) == {x \in SUBSET (0..(n - 1)) : Cardinality(x) = r}

\* Lines 94-116 of slice_constant_charge, on the ledger as line 92 left it:
\* the set of outcomes, one per sample
slice_constant_charge_body(self, b) ==
    LET c == set_longitudinal_cuts(self, b)
    IN
    IF c.exc # "none" THEN {Outcome(self, b, c)}
    ELSE
        LET s1 == WithCuts(self, c)
            n_macroparticles_alive == n_alive(b)
            s2 == [s1 EXCEPT
                     !.n_cut_tail = searchsorted(dz_alive(b), s1.z_cut_tail),
                     !.n_cut_head = n_macroparticles_alive
                                    - searchsorted(dz_alive(b), s1.z_cut_head),
                     !.attrs = @ \cup {"n_cut_tail", "n_cut_head"}]
            q0 == n_macroparticles_alive - s2.n_cut_tail - s2.n_cut_head
            ns == self_n_slices(s2)
        IN
        IF ~IsNumber(ns) THEN
            \* q0 // self.n_slices
            {Outcome(s2, b, Raise("TypeError", 103))}
        ELSE
            LET n    == ns.val
                \* numpy integer // and % by zero give 0
                quot == IF n = 0 THEN 0 ELSE q0 \div n
                rem  == IF n = 0 THEN 0 ELSE q0 % n
            IN  { [bins_constant_charge(
                     [s2 EXCEPT !.n_macroparticles =
                         [i \in 1..Len(@) |->
                             quot + (IF (i - 1) \in x THEN 1 ELSE 0)]],
                     b) EXCEPT !.drawn = <<x>>] : x \in sample(n, rem) }

\* slice_constant_charge without its first statement (line 92).
slice_constant_charge_unsorted(self, b0) == slice_constant_charge_body(self, b0)

\* slice_constant_charge(bunch): bunch.sort_particles(), then lines 94-116
slice_constant_charge(self, b0) ==
    slice_constant_charge_body(self, sort_particles(b0))

\* update_slices(bunch): the set of outcomes of the call
update_slices(self, b) ==
    IF self.mode = "const_charge" THEN slice_constant_charge(self, b)
    ELSE IF self.mode = "const_space" THEN slice_constant_space(self, b)
    ELSE {Outcome(self, b, NoExc)}

\* self.x, self.xp, self.y, self.yp, self.dz, self.dp of lines 133-138: the
\* attributes of a Slices object are those assigned in __init__ (lines 23-49)
\* and by the partitioners; x, xp, y, yp, dz, dp are none of them.
HasAttr(self, name) ==
    name \in {"nsigmaz", "mode", "mean_x", "n_macroparticles", "z_bins",
              "dynamic_frame"} \cup self.attrs

\* compute_statistics(bunch): [self, index, exc, line].  The moment arrays
\* mean_x .. epsn_z (lines 26-38) are written together, slice by slice, at
\* lines 140-156; mean_x stands for the thirteen of them.
compute_statistics(self, b) ==
    IF ~HasAttr(self, "n_cut_tail") THEN
        \* self.n_cut_tail
        [self |-> self, index |-> <<>>] @@ Raise("AttributeError", 129)
    ELSE
        LET idx == [i \in 1..(Len(self.n_macroparticles) + 1) |->
                      self.n_cut_tail
                      + SumSeq(SubSeq(self.n_macroparticles, 1, i - 1))]
            ns  == self_n_slices(self)
        IN
        IF ~IsNumber(ns) THEN
            \* xrange(self.n_slices)
            [self |-> self, index |-> idx] @@ Raise("TypeError", 131)
        ELSE IF ns.val >= 1 /\ ~HasAttr(self, "x") THEN
            \* the first pass of the loop: self.x[index[i]:index[i+1]]
            [self |-> self, index |-> idx] @@ Raise("AttributeError", 133)
        ELSE
            \* no slice, no pass of the loop: nothing is written
            [self |-> self, index |-> idx] @@ NoExc

\* ------------------------------------------------------------ the inputs
Coord == 0..MaxZ

IsAsc(q)  == \A i \in 1..(Len(q) - 1) : q[i] <= q[i + 1]
IsDesc(q) == \A i \in 1..(Len(q) - 1) : q[i] >= q[i + 1]

Arrays(len) == [1..len -> Coord]

\* The ledger before a turn's update: the alive particles in ascending or in
\* descending order (tracking moves them), the lost ones after them.
Bunches ==
    UNION { UNION { { [dz |-> a \o l,
                       n_macroparticles |-> na + nl,
                       n_macroparticles_lost |-> nl] :
                      a \in {q \in Arrays(na) : IsAsc(q) \/ IsDesc(q)},
                      l \in {q \in Arrays(nl) : IsAsc(q)} } :
                    na \in 0..(MaxParticles - nl) } :
            nl \in 0..MaxLost }

EmptyBunch == [dz |-> <<>>, n_macroparticles |-> 0, n_macroparticles_lost |-> 0]

Modes == {"const_space", "const_charge"}

NSigmas == {Null} \cup {<<k>> : k \in 1..MaxSigma}

\* (z_cut_tail, z_cut_head) as passed: both defaulted, one supplied, both
\* supplied
CutArgs == {<<Null, Null>>, <<Null, <<MaxZ>>>>, <<<<0>>, <<MaxZ>>>>}

\* ----------------------------------------------------------- the machine
Init ==
    /\ bunch = EmptyBunch
    /\ slices = <<>>
    /\ ctor = <<>>
    /\ call = [op |-> "none", exc |-> "none", line |-> 0]
    /\ index = <<>>
    /\ turn = <<>>

\* s = Slices(n, nsigmaz, mode, z_cut_tail, z_cut_head), once per simulation;
\* a caller whose construction raised has no object and may construct again.
Construct ==
    /\ slices = <<>>
    /\ \E n \in -1..MaxSlices, ns \in NSigmas, m \in Modes, cuts \in CutArgs :
         LET r == init(n, ns, m, cuts[1], cuts[2]) IN
         /\ slices' = r.obj
         /\ ctor' = <<[n_slices |-> n, nsigmaz |-> ns, mode |-> m,
                       z_cut_tail |-> cuts[1], z_cut_head |-> cuts[2]]>>
         /\ call' = [op |-> "__init__", exc |-> r.exc, line |-> r.line]
    /\ index' = <<>>
    /\ UNCHANGED <<bunch, turn>>

\* One turn: the ledger holds population b and s.update_slices(bunch) runs.
UpdateSlices ==
    /\ slices # <<>>
    /\ \E b \in Bunches :
         \E r \in update_slices(slices[1], b) :
            /\ slices' = <<r.self>>
            /\ bunch' = r.bunch
            /\ call' = [op |-> "update_slices", exc |-> r.exc, line |-> r.line]
    /\ index' = <<>>
    /\ UNCHANGED <<ctor, turn>>

\* s.compute_statistics(bunch) on the ledger as the last call left it.
ComputeStatistics ==
    /\ slices # <<>>
    /\ LET r == compute_statistics(slices[1], bunch) IN
         /\ slices' = <<r.self>>
         /\ index' = r.index
         /\ call' = [op |-> "compute_statistics", exc |-> r.exc, line |-> r.line]
    /\ UNCHANGED <<bunch, ctor, turn>>

Next == Construct \/ UpdateSlices \/ ComputeStatistics

Spec == Init /\ [][Next]_vars

\* ------------------------------------------- two objects updated in a turn
\* random.sample(range(n), k) draws from the generator that the module random
\* shares among all its callers (line 9): the subset it returns is a function
\* of the generator's position, here the number of drawing calls since it
\* was seeded.
draw(n, k, pos) == {(pos + j) % n : j \in 0..(k - 1)}

\* The outcomes among O in which sample returned what the generator gives at
\* position pos
seeded(O, n, pos) ==
    {r \in O : r.drawn = <<>>
                \/ r.drawn[1] = draw(n, Cardinality(r.drawn[1]), pos)}

\* sample(range(n), 0) draws nothing
consumed(r) == IF r.drawn # <<>> /\ r.drawn[1] # {} THEN 1 ELSE 0

\* update_slices after the first statement of the partitioner it calls
update_slices_body(self, b) ==
    IF self.mode = "const_charge" THEN slice_constant_charge_body(self, b)
    ELSE slice_constant_space_body(self, b)

\* The objects that Slices(n, nsigmaz, mode, z_cut_tail, z_cut_head) returns
Instances ==
    {r.obj[1] : r \in {q \in {init(n, ns, m, c[1], c[2]) :
                                n \in 1..MaxSlices, ns \in NSigmas,
                                m \in Modes, c \in CutArgs} : q.obj # <<>>}}

\* Two objects and the ledger at the start of a turn; the generator is seeded.
InitPair ==
    /\ bunch \in Bunches
    /\ slices \in {<<a, b>> : a \in Instances, b \in Instances}
    /\ ctor = <<>>
    /\ call = [op |-> "none", exc |-> "none", line |-> 0]
    /\ index = <<>>
    /\ turn = [pc |-> <<"called", "called">>, exc |-> <<"none", "none">>,
               rng |-> 0, order |-> <<>>,
               start |-> [slices |-> slices, bunch |-> bunch]]

\* slices[i].update_slices(bunch) up to and including bunch.sort_particles()
SortStep(i) ==
    /\ turn.pc[i] = "called"
    /\ bunch' = sort_particles(bunch)
    /\ turn' = [turn EXCEPT !.pc[i] = "sorted"]
    /\ UNCHANGED <<slices, ctor, call, index>>

\* the rest of slices[i].update_slices(bunch)
BodyStep(i) ==
    /\ turn.pc[i] = "sorted"
    /\ \E r \in seeded(update_slices_body(slices[i], bunch),
                        n_slices(slices[i]), turn.rng) :
         /\ slices' = [slices EXCEPT ![i] = r.self]
         /\ bunch' = r.bunch
         /\ call' = [op |-> "update_slices", exc |-> r.exc, line |-> r.line]
         /\ turn' = [turn EXCEPT !.pc[i] = "done", !.exc[i] = r.exc,
                                 !.rng = @ + consumed(r),
                                 !.order = Append(@, i)]
    /\ UNCHANGED <<ctor, index>>

NextPair == \E i \in 1..2 : SortStep(i) \/ BodyStep(i)

SpecPair == InitPair /\ [][NextPair]_vars

\* ------------------------- one update on two ledgers that differ in the lost
\* The coordinates that lost particles can have in the ledger, stored after
\* the alive ones
LostArrays(nl) == {q \in Arrays(nl) : IsAsc(q)}

\* The ledger b with its lost particles at the coordinates l
WithLost(b, l) == [b EXCEPT !.dz = dz_alive(b) \o l]

\* The objects before a turn's update: as constructed, or as the update of an
\* earlier turn left them
Prepared ==
    Instances \cup
    UNION {UNION {{r.self : r \in update_slices(a, b)} : b \in Bunches} :
           a \in Instances}

\* The same object twice, before the turn's update
InitTwin ==
    /\ bunch = EmptyBunch
    /\ slices \in {<<a, a>> : a \in Prepared}
    /\ ctor = <<>>
    /\ call = [op |-> "none", exc |-> "none", line |-> 0]
    /\ index = <<>>
    /\ turn = [pc |-> "constructed", twin |-> EmptyBunch,
               exc |-> <<"none", "none">>]

\* slices[1].update_slices(b1) and slices[2].update_slices(b2), where b1 and
\* b2 hold the same alive particles and as many lost ones, and sample returns
\* the same in both calls
UpdateTwin ==
    /\ turn.pc = "constructed"
    /\ \E b1 \in Bunches :
         \E l2 \in LostArrays(b1.n_macroparticles_lost) :
           \E r1 \in update_slices(slices[1], b1) :
             \E r2 \in update_slices(slices[2], WithLost(b1, l2)) :
                /\ r1.drawn = r2.drawn
                /\ slices' = <<r1.self, r2.self>>
                /\ bunch' = r1.bunch
                /\ call' = [op |-> "update_slices", exc |-> r1.exc,
                            line |-> r1.line]
                /\ turn' = [pc |-> "updated", twin |-> r2.bunch,
                            exc |-> <<r1.exc, r2.exc>>]
    /\ UNCHANGED <<ctor, index>>

NextTwin == UpdateTwin

SpecTwin == InitTwin /\ [][NextTwin]_vars

\* ------------------------------------------------------------ properties
HasObj == slices # <<>>
Obj == slices[1]
Updated == call.op = "update_slices"
Constructed == call.op = "__init__"
Alive == n_alive(bunch)

\* the number of alive particles whose coordinate satisfies P
CountAlive(P(_)) == Cardinality({i \in 1..Alive : P(Num(bunch.dz[i]))})

NonDecreasing(zb) == \A i \in 1..(Len(zb) - 1) : NLe(zb[i], zb[i + 1])

FixedCutsGiven == ctor # <<>> /\ ctor[1].z_cut_tail # Null /\ ctor[1].z_cut_head # Null

CutCounts == {"n_cut_tail", "n_cut_head"}
CutPoints == {"z_cut_tail", "z_cut_head"}

\* C1: after every update_slices call on a valid input (at least one slice,
\* at least one alive particle), in either mode and for every window policy,
\* sum(n_macroparticles) + n_cut_tail + n_cut_head equals the alive particle
\* count and the three terms are non-negative.
C1_CountsSumToAlive ==
    (Updated /\ n_slices(Obj) >= 1 /\ Alive >= 1) =>
        /\ CutCounts \subseteq Obj.attrs
        /\ SumSeq(Obj.n_macroparticles) + Obj.n_cut_tail + Obj.n_cut_head = Alive
        /\ \A i \in 1..Len(Obj.n_macroparticles) : Obj.n_macroparticles[i] >= 0
        /\ Obj.n_cut_tail >= 0
        /\ Obj.n_cut_head >= 0

\* C2: z_bins is monotonically non-decreasing after construction with fixed
\* cuts (the constructed object holds such an array) and after every
\* update_slices call, in both modes.
C2_BinsNonDecreasing ==
    /\ (Constructed /\ FixedCutsGiven /\ ctor[1].n_slices >= 1) =>
            (HasObj /\ NonDecreasing(Obj.z_bins))
    /\ HasObj => NonDecreasing(Obj.z_bins)

\* C3: in const_space mode, after an update, every alive particle whose
\* coordinate equals the upper window edge z_bins[-1] is counted in the last
\* slice and none of them in n_cut_head, however many share the coordinate.
C3_HeadEdgeInLastSlice ==
    (Updated /\ Obj.mode = "const_space" /\ n_slices(Obj) >= 1) =>
        LET edge  == Obj.z_bins[Len(Obj.z_bins)]
            AtEdge(x) == NEq(x, edge)
            Above(x)  == NLt(edge, x)
        IN  CountAlive(AtEdge) > 0 =>
                /\ "n_cut_head" \in Obj.attrs
                /\ Obj.n_macroparticles[Len(Obj.n_macroparticles)]
                        >= CountAlive(AtEdge)
                /\ Obj.n_cut_head = CountAlive(Above)

\* C4: after every const_charge update, with q0 = alive - n_cut_tail -
\* n_cut_head, every slice count is floor(q0 / n_slices) or that plus one and
\* exactly q0 mod n_slices slices hold the larger value.
C4_EqualCharge ==
    (Updated /\ Obj.mode = "const_charge" /\ n_slices(Obj) >= 1
        /\ Alive >= 1 /\ CutCounts \subseteq Obj.attrs) =>
        LET q0 == Alive - Obj.n_cut_tail - Obj.n_cut_head
            n  == n_slices(Obj)
            c  == Obj.n_macroparticles
        IN  /\ \A i \in 1..n : c[i] \in {q0 \div n, q0 \div n + 1}
            /\ Cardinality({i \in 1..n : c[i] = q0 \div n + 1}) = q0 % n

\* C5: when both fixed cut points were supplied at construction, after the
\* construction and after any sequence of updates z_cut_tail and z_cut_head
\* equal the constructor's values and z_bins[0] / z_bins[-1] equal them.
C5_FixedWindowKept ==
    (FixedCutsGiven /\ ctor[1].n_slices >= 1) =>
        /\ HasObj
        /\ CutPoints \subseteq Obj.attrs
        /\ NEq(Obj.z_cut_tail, Num(ctor[1].z_cut_tail[1]))
        /\ NEq(Obj.z_cut_head, Num(ctor[1].z_cut_head[1]))
        /\ NEq(Obj.z_bins[1], Num(ctor[1].z_cut_tail[1]))
        /\ NEq(Obj.z_bins[Len(Obj.z_bins)], Num(ctor[1].z_cut_head[1]))

\* C6: with a dynamic window and nsigmaz None, after an update on at least one
\* alive particle that set the window and the cut counts, the window is the
\* minimum and maximum alive coordinate and n_cut_tail = n_cut_head = 0.
C6_ExtremeWindowCutsNothing ==
    (Updated /\ Obj.nsigmaz = Null /\ Obj.dynamic_frame = "on" /\ Alive >= 1
        /\ n_slices(Obj) >= 1
        /\ (CutPoints \cup CutCounts) \subseteq Obj.attrs) =>
        LET AboveTail(x) == NLe(Obj.z_cut_tail, x)
            BelowHead(x) == NLe(x, Obj.z_cut_head)
            AtTail(x) == NEq(x, Obj.z_cut_tail)
            AtHead(x) == NEq(x, Obj.z_cut_head)
        IN  /\ CountAlive(AboveTail) = Alive /\ CountAlive(AtTail) >= 1
            /\ CountAlive(BelowHead) = Alive /\ CountAlive(AtHead) >= 1
            /\ Obj.n_cut_tail = 0
            /\ Obj.n_cut_head = 0

\* C7: in const_charge mode q0 = alive - n_cut_tail - n_cut_head is the number
\* of alive particles with tail <= coordinate <= head: a particle whose
\* coordinate equals the head cut is not counted in n_cut_head.
C7_HeadParticleInSlices ==
    (Updated /\ Obj.mode = "const_charge" /\ Alive >= 1
        /\ n_slices(Obj) >= 1
        /\ (CutPoints \cup CutCounts) \subseteq Obj.attrs) =>
        LET Inside(x) == NLe(Obj.z_cut_tail, x) /\ NLe(x, Obj.z_cut_head)
            Above(x)  == NLt(Obj.z_cut_head, x)
        IN  /\ Alive - Obj.n_cut_tail - Obj.n_cut_head = CountAlive(Inside)
            /\ Obj.n_cut_head = CountAlive(Above)

\* C8: constructing a Slices object with both cut points supplied (and at least
\* one slice) completes, and z_bins holds n_slices + 1 equally spaced values
\* from z_cut_tail to z_cut_head and z_centers their n_slices midpoints.
C8_FixedCutsSeedBoundaries ==
    (Constructed /\ FixedCutsGiven /\ ctor[1].n_slices >= 1) =>
        LET n    == ctor[1].n_slices
            tail == Num(ctor[1].z_cut_tail[1])
            head == Num(ctor[1].z_cut_head[1])
        IN  /\ call.exc = "none"
            /\ HasObj
            /\ Len(Obj.z_bins) = n + 1
            /\ \A i \in 1..(n + 1) :
                 NEq(Obj.z_bins[i],
                     NAdd(tail, NScale(NSub(head, tail), i - 1, n)))
            /\ "z_centers" \in Obj.attrs
            /\ Len(Obj.z_centers) = n
            /\ \A i \in 1..n :
                 NEq(Obj.z_centers[i],
                     NScale(NAdd(Obj.z_bins[i], Obj.z_bins[i + 1]), 1, 2))

\* C9: constructing a Slices object with n_slices < 1 fails at construction
\* (the caller gets an error and no object), so that no object with fewer
\* than one slice is ever updated.
C9_SliceCountValidated ==
    /\ (Constructed /\ ctor[1].n_slices < 1) => (call.exc # "none" /\ ~HasObj)
    /\ Updated => n_slices(Obj) >= 1

Published(self) ==
    [z_cut_tail |-> self.z_cut_tail, z_cut_head |-> self.z_cut_head,
     z_bins |-> self.z_bins, z_centers |-> self.z_centers,
     n_macroparticles |-> self.n_macroparticles,
     n_cut_tail |-> self.n_cut_tail, n_cut_head |-> self.n_cut_head,
     present |-> self.attrs \ {"z_index"}]

\* C11: an update_slices call that raises leaves z_cut_tail, z_cut_head,
\* z_bins, z_centers, n_macroparticles, n_cut_tail and n_cut_head (their
\* values, and whether they exist) exactly as they were before the call.
C11_FailedUpdateKeepsFields ==
    [][(slices # <<>> /\ call'.op = "update_slices" /\ call'.exc # "none")
          => Published(slices'[1]) = Published(slices[1])]_vars

\* Reading a moment field (s.mean_x .. s.epsn_z) of the object: a plain
\* attribute read of the array assigned at lines 26-38.
read_moments(self) ==
    IF HasAttr(self, "mean_x") THEN [value |-> <<self.mean_x>>] @@ NoExc
    ELSE [value |-> <<>>] @@ Raise("AttributeError", 0)

\* The lifecycle state of the object: Uninitialized until an update has
\* completed, Partitioned after it, StatisticsComputed once
\* compute_statistics has completed on that partition.
StatisticsComputed == call.op = "compute_statistics" /\ call.exc = "none"

\* C12: the moment fields can be read only in state StatisticsComputed: a
\* read after construction or after an update_slices call, before
\* compute_statistics has completed, is refused with an error and yields
\* neither the constructor's zeros nor an earlier turn's values.
C12_MomentsGuarded ==
    (HasObj /\ n_slices(Obj) >= 1 /\ ~StatisticsComputed) =>
        read_moments(Obj).exc # "none"

\* C13: after a const_space update on a valid input, for every slice i but
\* the last n_macroparticles[i] is the number of alive particles with
\* z_bins[i] <= coordinate < z_bins[i+1], n_cut_tail is the number of alive
\* particles with coordinate < z_bins[0], and the slice counts hold no
\* particle from outside [z_cut_tail, z_cut_head].
C13_SpaceCountsMatchBins ==
    (Updated /\ Obj.mode = "const_space" /\ n_slices(Obj) >= 1 /\ Alive >= 1) =>
        LET zb == Obj.z_bins
            In(i, x) == NLe(zb[i], x) /\ NLt(x, zb[i + 1])
            Below(x) == NLt(x, zb[1])
            Inside(x) == NLe(Obj.z_cut_tail, x) /\ NLe(x, Obj.z_cut_head)
        IN  /\ ({"n_cut_tail"} \cup CutPoints) \subseteq Obj.attrs
            /\ \A i \in 1..(n_slices(Obj) - 1) :
                 LET InI(x) == In(i, x)
                 IN  Obj.n_macroparticles[i] = CountAlive(InI)
            /\ Obj.n_cut_tail = CountAlive(Below)
            /\ SumSeq(Obj.n_macroparticles) <= CountAlive(Inside)

\* C14: after a const_charge update on a valid input z_bins[0] is z_cut_tail,
\* z_bins[n_slices] is z_cut_head, and every internal boundary i is the
\* midpoint of the sorted coordinates at indices k - 1 and k, where
\* k = n_cut_tail + n_macroparticles[0] + .. + n_macroparticles[i-1].
C14_ChargeBinsAreMidpoints ==
    (Updated /\ Obj.mode = "const_charge" /\ n_slices(Obj) >= 1 /\ Alive >= 1) =>
        LET n  == n_slices(Obj)
            zb == Obj.z_bins
            k(i) == Obj.n_cut_tail + SumSeq(SubSeq(Obj.n_macroparticles, 1, i))
        IN  /\ (CutPoints \cup CutCounts) \subseteq Obj.attrs
            /\ Len(zb) = n + 1
            /\ NEq(zb[1], Obj.z_cut_tail)
            /\ NEq(zb[n + 1], Obj.z_cut_head)
            /\ \A i \in 1..(n - 1) :
                 /\ 1 <= k(i) /\ k(i) < Len(bunch.dz)
                 /\ NEq(NScale(zb[i + 1], 2, 1),
                        Num(bunch.dz[k(i)] + bunch.dz[k(i) + 1]))

\* C15: after every update on a valid input, in either mode, the counts and
\* the boundaries agree: the cut counts and the slice counts place every
\* sorted index n_cut_tail + sum(counts[:i]) <= j < n_cut_tail +
\* sum(counts[:i+1]) in slice i, and the particle at such an index has
\* z_bins[i] <= coordinate <= z_bins[i+1].
C15_CountsAgreeWithBins ==
    (Updated /\ n_slices(Obj) >= 1 /\ Alive >= 1) =>
        LET c  == Obj.n_macroparticles
            zb == Obj.z_bins
            lo(i) == Obj.n_cut_tail + SumSeq(SubSeq(c, 1, i - 1))
        IN  /\ "n_cut_tail" \in Obj.attrs
            /\ Len(zb) = Len(c) + 1
            /\ \A i \in 1..Len(c) :
                 \A j \in (lo(i) + 1)..(lo(i) + c[i]) :
                    /\ j <= Alive
                    /\ NLe(zb[i], Num(bunch.dz[j]))
                    /\ NLe(Num(bunch.dz[j]), zb[i + 1])

\* C16: in a compute_statistics call after an update on a valid input, the
\* index ranges [index[i], index[i+1]) of the slices are consecutive and
\* pairwise disjoint, the range of slice i holds n_macroparticles[i] sorted
\* indices, and together they are exactly [n_cut_tail, alive - n_cut_head).
C16_IndexRangesCoverWindow ==
    (call.op = "compute_statistics" /\ n_slices(Obj) >= 1 /\ Alive >= 1) =>
        LET n == n_slices(Obj)
            Range(i) == {j \in 0..(Alive - 1) : index[i] <= j /\ j < index[i + 1]}
        IN  /\ CutCounts \subseteq Obj.attrs
            /\ Len(index) = n + 1
            /\ \A i \in 1..n :
                 /\ index[i] <= index[i + 1]
                 /\ Cardinality(Range(i)) = Obj.n_macroparticles[i]
            /\ \A i, j \in 1..n : i # j => Range(i) \cap Range(j) = {}
            /\ UNION {Range(i) : i \in 1..n}
                 = {j \in 0..(Alive - 1) :
                       Obj.n_cut_tail <= j /\ j < Alive - Obj.n_cut_head}

\* the last update got past the window resolver (lines 59-66)
WindowResolved == Updated /\ call.line \notin {59, 60}

\* C17: in every update_slices call, in either mode, sort_particles runs
\* before the window is resolved and before a coordinate is read or a slice
\* field written: whatever order the ledger was in, the call leaves the alive
\* coordinates ascending, and a window taken from the extreme particles
\* (nsigmaz None) is [smallest, largest] alive coordinate.
C17_SortedBeforePartition ==
    Updated =>
        /\ IsAsc(dz_alive(bunch))
        /\ (WindowResolved /\ Obj.nsigmaz = Null) =>
              /\ CutPoints \subseteq Obj.attrs
              /\ \A j \in 1..Alive :
                    /\ NLe(Obj.z_cut_tail, Num(bunch.dz[j]))
                    /\ NLe(Num(bunch.dz[j]), Obj.z_cut_head)

\* C17 witness: an update in const_charge mode has resolved an extreme-particle
\* window over alive particles of different coordinates.
C17_Witness ==
    /\ WindowResolved /\ Obj.nsigmaz = Null /\ Obj.mode = "const_charge"
    /\ Alive >= 2 /\ bunch.dz[1] < bunch.dz[Alive]
    /\ NEq(Obj.z_cut_tail, Num(bunch.dz[1]))
    /\ NEq(Obj.z_cut_head, Num(bunch.dz[Alive]))

\* What slices[i].update_slices(bunch) gives when it is the only update of
\* the turn, on the same population and the same seed
Alone(i) ==
    CHOOSE r \in seeded(update_slices_body(turn.start.slices[i],
                                           sort_particles(turn.start.bunch)),
                        n_slices(turn.start.slices[i]), 0) : TRUE

C19_ArrayLengthsFixed ==
    (HasObj /\ ctor[1].n_slices >= 1) =>
        /\ n_slices(Obj) = ctor[1].n_slices
        /\ ((Updated \/ call.op = "compute_statistics") /\ Alive >= 1) =>
              /\ Len(Obj.z_bins) = n_slices(Obj) + 1
              /\ Len(Obj.n_macroparticles) = n_slices(Obj)
              /\ "z_centers" \in Obj.attrs
              /\ Len(Obj.z_centers) = n_slices(Obj)

\* C20: a compute_statistics call after an update on a valid input, when one
\* or more slices hold zero particles, completes without error and leaves
\* the moments (mean, standard deviation, emittance) of every empty slice 0.
C20_EmptySlicesHandled ==
    (call.op = "compute_statistics" /\ n_slices(Obj) >= 1 /\ Alive >= 1
        /\ CutCounts \subseteq Obj.attrs
        /\ \E i \in 1..n_slices(Obj) : Obj.n_macroparticles[i] = 0) =>
        /\ call.exc = "none"
        /\ \A i \in 1..n_slices(Obj) :
              Obj.n_macroparticles[i] = 0 => Obj.mean_x[i] = 0

====
